---- MODULE Spec2Model ----
(***************************************************************************)
(* Dynamic-Event-Calendar: the App component (event store, overlap check,  *)
(* drag relocation, persistence to localStorage) and the parts of the      *)
(* Calendar component that decide which operations the user can trigger.   *)
(*                                                                         *)
(* One action per user operation.  A handler that calls a React state      *)
(* setter is followed, in the same action, by the re-render of App (which  *)
(* sorts the selected day's list in place, Calendar.tsx:598-599) and by    *)
(* the useEffect that persists the events when their reference changed     *)
(* (Calendar.tsx:315-317).                                                 *)
(*                                                                         *)
(* EventModal is rendered by App (Calendar.tsx:630-637) but defined        *)
(* elsewhere: while it is open the page behind it takes no input, and it   *)
(* calls onSave(eventData), onDelete(event) with its event prop, and       *)
(* onClose(); closing after a save or a delete is done by the handlers.    *)
(* localStorage.setItem is taken to succeed.                               *)
(***************************************************************************)
EXTENDS Integers, Sequences, FiniteSets, TLC

VARIABLES
    events,            \* useState events: day key -> list of events
    storage,           \* localStorage item 'calendar_events'
    fatal,             \* the first render threw: nothing is mounted
    selectedDate,      \* useState selectedDate (NoDate for null)
    selectedEvent,     \* useState selectedEvent (NoEvent for undefined)
    isEventModalOpen,  \* useState isEventModalOpen
    showAddEvent,      \* useState showAddEvent
    searchQuery,       \* useState searchQuery
    currentMonth,      \* useState currentMonth (month index)
    nextId,            \* number of identifiers Math.random has produced
    lastOp,            \* the last operation and how it ended
    download           \* the file the last operation handed to the browser

vars == <<events, storage, fatal, selectedDate, selectedEvent,
          isEventModalOpen, showAddEvent, searchQuery, currentMonth,
          nextId, lastOp, download>>

----------------------------------------------------------------------------
(* Bounds of the model *)

\* identifiers the session may generate (one per added event)
MaxId == 3

\* The days the user clicks and drops on: 31 January and 1 February 2023
\* (day numbers, see Dates); both have a cell in the grid of either month.
UserDays == {31, 32}

Months == {0, 1}

\* The last month the grid study pages to: December 2050, the end of a
\* 28-year cycle of the calendar
MaxMonth == 335

\* The months of the grid study
RefMonths == 0..MaxMonth

\* "HH:MM" strings of the time inputs, as <<hours, minutes>>
T0800 == <<8, 0>>
T0900 == <<9, 0>>
T1000 == <<10, 0>>

\* What the user submits in the modal's form (Omit<Event, 'id'>); the
\* description, category and color of an event are carried along unread by
\* the handlers and are left out
FormInputs ==
    { [title |-> <<"A">>, startTime |-> T0800, endTime |-> T0900],
      [title |-> <<"b">>, startTime |-> T0900, endTime |-> T1000] }

\* What the user types in the search box
Queries == { <<>>, <<"a">> }

\* The time ranges of the overlap study, as <<startTime, endTime>>: ranges
\* that touch (08:00-09:00, 09:00-10:00), straddle (08:30-09:30), contain
\* (08:00-10:00), and ranges that last no time, at the start, inside and at
\* the end of 08:00-09:00
T0830 == <<8, 30>>
T0930 == <<9, 30>>
TimeRanges ==
    { <<T0800, T0900>>, <<T0830, T0930>>, <<T0900, T1000>>, <<T0800, T1000>>,
      <<T0800, T0800>>, <<T0830, T0830>>, <<T0900, T0900>> }

\* The day the overlap study works on
OverlapDays == {31}

----------------------------------------------------------------------------
(* Values *)

NoDate == 0

NoEvent == [id |-> 0, title |-> <<>>, startTime |-> <<0, 0>>, endTime |-> <<0, 0>>]

EmptyMap == <<>>

NoDownload == [format |-> "none", name |-> <<>>, rows |-> <<>>]

\* mapping m with key k set to list v
Put(m, k, v) == [x \in (DOMAIN m) \cup {k} |-> IF x = k THEN v ELSE m[x]]

\* mapping m with key k deleted
Del(m, k) == [x \in (DOMAIN m) \ {k} |-> m[x]]

\* events[dateKey] || []
Get(m, k) == IF k \in DOMAIN m THEN m[k] ELSE <<>>

----------------------------------------------------------------------------
(* Dates: a Date is a local calendar day, numbered from 1 January 2023 = 1, *)
(* and a month is numbered from January 2023 = 0, in a browser whose time  *)
(* zone is UTC.  The events live in January and February 2023.             *)

\* Date.getMonth()
GetMonth(date) == IF date <= 31 THEN 0 ELSE 1

\* Date.getDate()
GetDate(date) == IF date <= 31 THEN date ELSE date - 31

\* Date.getDay(), 0 = Sunday: 1 January 2023 is a Sunday
GetDay(date) == (date - 1) % 7

\* Date.getFullYear() of the days of a month
GetFullYear(month) == 2023 + month \div 12

\* the Gregorian leap years
IsLeapYear(year) == year % 4 = 0 /\ (year % 100 # 0 \/ year % 400 = 0)

\* new Date(year, month + 1, 0).getDate()
LastDateOfMonth(month) ==
    IF month % 12 = 1 THEN (IF IsLeapYear(GetFullYear(month)) THEN 29 ELSE 28)
    ELSE IF month % 12 \in {3, 5, 8, 10} THEN 30
    ELSE 31

\* the number of leap years before a year
LeapYearsBefore(year) ==
    (year - 1) \div 4 - (year - 1) \div 100 + (year - 1) \div 400

\* the number of days of a common year before each of its months
DaysBeforeMonth == <<0, 31, 59, 90, 120, 151, 181, 212, 243, 273, 304, 334>>

\* new Date(year, month, 1)
FirstDayOfMonth(month) ==
    LET year == GetFullYear(month)
    IN  1 + 365 * (year - 2023) + (LeapYearsBefore(year) - LeapYearsBefore(2023))
          + DaysBeforeMonth[(month % 12) + 1]
          + (IF IsLeapYear(year) /\ month % 12 >= 2 THEN 1 ELSE 0)

\* date.toISOString().split('T')[0]: the "YYYY-MM-DD" key of a calendar
\* day, written as the number YYYYMMDD
DateKey(date) == 2023 * 10000 + (GetMonth(date) + 1) * 100 + GetDate(date)

\* getDaysInMonth with Math.floor for Math.ceil
getDaysInMonthFloor(month) ==
    LET startingDayIndex == GetDay(FirstDayOfMonth(month))
        daysInMonth      == LastDateOfMonth(month)
        firstDay         == FirstDayOfMonth(month) - startingDayIndex
        totalDays        == startingDayIndex + daysInMonth
        numberOfWeeks    == totalDays \div 7
        daysToShow       == numberOfWeeks * 7
    IN  [i \in 1..daysToShow |-> firstDay + (i - 1)]

\* getDaysInMonth(date): the days of the grid of a month
getDaysInMonth(month) ==
    LET startingDayIndex == GetDay(FirstDayOfMonth(month))
        daysInMonth      == LastDateOfMonth(month)
        firstDay         == FirstDayOfMonth(month) - startingDayIndex
        totalDays        == startingDayIndex + daysInMonth
        numberOfWeeks    == (totalDays + 6) \div 7
        daysToShow       == numberOfWeeks * 7
    IN  [i \in 1..daysToShow |-> firstDay + (i - 1)]

\* the days that have a cell (a Droppable and a button) in the grid
GridDays(month) ==
    LET days == getDaysInMonth(month)
    IN  {days[i] : i \in 1..Len(days)}

\* const days = getDaysInMonth(currentMonth), for each modelled month
Grid == [month \in Months |-> GridDays(month)]

----------------------------------------------------------------------------
(* Persistence *)

\* JSON.stringify(events) as stored by localStorage.setItem
Stringify(m) == [kind |-> "json", type |-> "object", val |-> m]

StorageAbsent  == [kind |-> "absent", type |-> "none", val |-> EmptyMap]
StorageGarbage == [kind |-> "text", type |-> "none", val |-> EmptyMap]
StorageNull    == [kind |-> "json", type |-> "null", val |-> EmptyMap]

InitialStorage == {StorageAbsent, StorageGarbage, StorageNull, Stringify(EmptyMap)}

\* loadEventsFromStorage: getItem, JSON.parse, {} when absent or on a throw
loadEventsFromStorage(item) ==
    IF item.kind = "absent" THEN [type |-> "object", val |-> EmptyMap]
    ELSE IF item.kind = "text" THEN [type |-> "object", val |-> EmptyMap]
    ELSE [type |-> item.type, val |-> item.val]

\* saveEventsToStorage
saveEventsToStorage(m) == Stringify(m)

----------------------------------------------------------------------------
(* Pure helpers of App and Calendar *)

\* ParseTime reading the hours only
ParseTimeWholeHours(t) == t[1] * 60 * 60000

\* new Date(`2000-01-01T${time}`): milliseconds after local midnight
ParseTime(t) == (t[1] * 60 + t[2]) * 60000

\* hasTimeOverlap on closed ranges: <= and >= for < and >
hasTimeOverlapClosed(event1, event2) ==
    LET start1 == ParseTime(event1.startTime)
        end1   == ParseTime(event1.endTime)
        start2 == ParseTime(event2.startTime)
        end2   == ParseTime(event2.endTime)
    IN  start1 <= end2 /\ end1 >= start2

\* hasTimeOverlap(event1, event2)
hasTimeOverlap(event1, event2) ==
    LET start1 == ParseTime(event1.startTime)
        end1   == ParseTime(event1.endTime)
        start2 == ParseTime(event2.startTime)
        end2   == ParseTime(event2.endTime)
    IN  start1 < end2 /\ end1 > start2

\* a.localeCompare(b) on two zero-padded "HH:MM" strings
LocaleCompare(a, b) ==
    IF a[1] < b[1] THEN -1
    ELSE IF a[1] > b[1] THEN 1
    ELSE IF a[2] < b[2] THEN -1
    ELSE IF a[2] > b[2] THEN 1
    ELSE 0

\* one step of a stable sort: e goes after every element that does not
\* compare greater than it
SortInsert(sorted, e) ==
    LET k == Cardinality({i \in 1..Len(sorted) :
                 LocaleCompare(sorted[i].startTime, e.startTime) <= 0})
    IN  SubSeq(sorted, 1, k) \o <<e>> \o SubSeq(sorted, k + 1, Len(sorted))

RECURSIVE SortByStartTime(_)
\* list.sort((a, b) => a.startTime.localeCompare(b.startTime)), stable
SortByStartTime(list) ==
    IF list = <<>> THEN <<>>
    ELSE SortInsert(SortByStartTime(SubSeq(list, 1, Len(list) - 1)), list[Len(list)])

\* String.prototype.toLowerCase on the letters the model uses
ToLowerCase(str) ==
    [i \in 1..Len(str) |-> IF str[i] = "A" THEN "a"
                           ELSE IF str[i] = "B" THEN "b" ELSE str[i]]

\* String.prototype.includes
Includes(str, sub) ==
    \E i \in 0..(Len(str) - Len(sub)) : SubSeq(str, i + 1, i + Len(sub)) = sub

\* getFilteredEvents(dateEvents); no modelled event has a description, so
\* (event.description || '') never includes a non-empty query
getFilteredEvents(dateEvents, query) ==
    IF query = <<>> THEN dateEvents
    ELSE SelectSeq(dateEvents,
                   LAMBDA e : Includes(ToLowerCase(e.title), ToLowerCase(query)))

\* dayEvents.slice(0, 2): the events a grid cell renders as draggables
GridEvents(m, date, query) ==
    LET dayEvents == getFilteredEvents(Get(m, DateKey(date)), query)
    IN  SubSeq(dayEvents, 1, IF Len(dayEvents) < 2 THEN Len(dayEvents) ELSE 2)

\* Array.prototype.splice(index, 1): the list without the element at the
\* 0-based index
SpliceOut(list, index) ==
    SubSeq(list, 1, index) \o SubSeq(list, index + 2, Len(list))

\* Array.prototype.splice(index, 0, e): e inserted at the 0-based index
\* (at the end when the index is beyond the length)
SpliceIn(list, index, e) ==
    LET at == IF index > Len(list) THEN Len(list) ELSE index
    IN  SubSeq(list, 1, at) \o <<e>> \o SubSeq(list, at + 1, Len(list))

\* currentMonthEvents with d < lastDay for d <= lastDay
currentMonthEventsBeforeLastDay(m, d, lastDay) ==
    LET RECURSIVE Loop(_)
        Loop(day) == IF day < lastDay
                     THEN Get(m, DateKey(day)) \o Loop(day + 1)
                     ELSE <<>>
    IN  Loop(d)

\* handleExportEvents, the loop for (d = firstDay; d <= lastDay; d + 1 day)
\* that pushes events[dateKey] where it is defined
currentMonthEvents(m, d, lastDay) ==
    LET RECURSIVE Loop(_)
        Loop(day) == IF day <= lastDay
                     THEN Get(m, DateKey(day)) \o Loop(day + 1)
                     ELSE <<>>
    IN  Loop(d)

\* handleExportEvents, the file: events-YYYY-MM.json holds the array of the
\* event objects, events-YYYY-MM.csv a header row and one row per event with
\* the values in the order of the headers (of the fields the model keeps)
Download(format, month, list) ==
    [format |-> format,
     name   |-> <<GetFullYear(month), (month % 12) + 1>>,
     rows   |-> IF format = "json" THEN list
                ELSE <<<<"id", "title", "startTime", "endTime">>>>
                     \o [i \in 1..Len(list) |->
                           <<list[i].id, list[i].title,
                             list[i].startTime, list[i].endTime>>]]

\* The render of App after a state change: the sidebar evaluates
\* getSelectedDateEvents().sort(...); with an empty query
\* getFilteredEvents returns events[dateKey] itself, so sort() reorders the
\* stored list in place.
Render(m, date, query) ==
    IF date # NoDate /\ query = <<>> /\ DateKey(date) \in DOMAIN m
    THEN [m EXCEPT ![DateKey(date)] = SortByStartTime(@)]
    ELSE m

\* useState(loadEventsFromStorage()) and the first render, which throws on
\* events[dateKey] when the loaded value is null
FirstRenderThrows(loaded) == loaded.type = "null"

Op(name, outcome) == [op |-> name, out |-> outcome]

----------------------------------------------------------------------------
(* Initial state: App mounted, first render done *)

\* (with a stored null the mapping is never read: nothing is mounted)
Init ==
    /\ storage \in InitialStorage
    /\ events = loadEventsFromStorage(storage).val
    /\ fatal = FirstRenderThrows(loadEventsFromStorage(storage))
    /\ selectedDate = NoDate
    /\ selectedEvent = NoEvent
    /\ isEventModalOpen = FALSE
    /\ showAddEvent = FALSE
    /\ searchQuery = <<>>
    /\ currentMonth = 0
    /\ nextId = 0
    /\ lastOp = Op("init", "ok")
    /\ download = NoDownload

----------------------------------------------------------------------------
(* Handlers of App, as functions of the state they read *)

\* handleSaveEvent, the new event object:
\* id: selectedEvent?.id || Math.random().toString(36).substr(2, 9)
NewEvent(eventData, selEvent, freshId) ==
    [id        |-> IF selEvent # NoEvent THEN selEvent.id ELSE freshId,
     title     |-> eventData.title,
     startTime |-> eventData.startTime,
     endTime   |-> eventData.endTime]

\* HasOverlap looking at the last event of the day only
HasOverlapLastOnly(existingEvents, newEvent) ==
    /\ existingEvents # <<>>
    /\ existingEvents[Len(existingEvents)].id # newEvent.id
    /\ hasTimeOverlap(existingEvents[Len(existingEvents)], newEvent)

\* handleSaveEvent, hasOverlap: existingEvents.some(event =>
\*   event.id !== newEvent.id && hasTimeOverlap(event, newEvent))
HasOverlap(existingEvents, newEvent) ==
    \E i \in 1..Len(existingEvents) :
        /\ existingEvents[i].id # newEvent.id
        /\ hasTimeOverlap(existingEvents[i], newEvent)

\* handleSaveEvent, the mapping passed to setEvents when there is no overlap
SavedEvents(m, dateKey, selEvent, newEvent) ==
    LET existingEvents == Get(m, dateKey)
    IN  IF selEvent # NoEvent
        THEN Put(m, dateKey,
                 [i \in 1..Len(existingEvents) |->
                     IF existingEvents[i].id = selEvent.id
                     THEN newEvent ELSE existingEvents[i]])
        ELSE Put(m, dateKey, Append(existingEvents, newEvent))

\* DeletedEvents without the removal of an emptied day
DeletedEventsKeepingDay(m, dateKey, event) ==
    Put(m, dateKey, SelectSeq(m[dateKey], LAMBDA e : e.id # event.id))

\* handleDeleteEvent, the mapping passed to setEvents; the caller has checked
\* that newEvents[dateKey] is defined
DeletedEvents(m, dateKey, event) ==
    LET rest == SelectSeq(m[dateKey], LAMBDA e : e.id # event.id)
    IN  IF Len(rest) = 0 THEN Del(m, dateKey) ELSE Put(m, dateKey, rest)

\* handleEventDragEnd, the mapping passed to setEvents; eventIndex is a
\* position of newEvents[sourceDate]
DraggedEvents(m, sourceDate, eventIndex, destinationDate, destinationIndex) ==
    LET movedEvent == m[sourceDate][eventIndex + 1]
        removed    == Put(m, sourceDate, SpliceOut(m[sourceDate], eventIndex))
        created    == IF destinationDate \in DOMAIN removed
                      THEN removed ELSE Put(removed, destinationDate, <<>>)
    IN  Put(created, destinationDate,
            SpliceIn(created[destinationDate], destinationIndex, movedEvent))

\* SamePosition without the early return
SamePositionNever(sourceDate, sourceIndex, destinationDate, destinationIndex) ==
    FALSE

\* handleEventDragEnd, the early return for a drop on the position the drag
\* started from
SamePosition(sourceDate, sourceIndex, destinationDate, destinationIndex) ==
    sourceDate = destinationDate /\ sourceIndex = destinationIndex

\* Persisted without the effect on [events]: only the handler's own write
PersistedByHandlerOnly(newEvents, rendered) == saveEventsToStorage(newEvents)

\* What localStorage holds once a handler that called setEvents(newEvents)
\* has completed: the handler's own saveEventsToStorage(newEvents), where it
\* has one, is followed by the render, and then the effect on [events] writes
\* the rendered mapping.
Persisted(newEvents, rendered) == saveEventsToStorage(rendered)

----------------------------------------------------------------------------
(* Actions: one per user operation *)

\* click on a day cell of the grid
DaySelect(date) ==
    /\ ~fatal /\ ~isEventModalOpen
    /\ date \in Grid[currentMonth]
    /\ selectedDate' = date
    /\ showAddEvent' = TRUE
    /\ events' = Render(events, date, searchQuery)
    /\ lastOp' = Op("ui", "ok")
    /\ download' = NoDownload
    /\ UNCHANGED <<storage, fatal, selectedEvent, isEventModalOpen,
                   searchQuery, currentMonth, nextId>>

\* click on an event: one of the first two filtered events of a grid cell,
\* or any filtered event of the sidebar (the selected day)
EventClick(date, event) ==
    /\ ~fatal /\ ~isEventModalOpen
    /\ \/ /\ date \in Grid[currentMonth]
          /\ \E i \in 1..Len(GridEvents(events, date, searchQuery)) :
                event = GridEvents(events, date, searchQuery)[i]
       \/ /\ date = selectedDate
          /\ \E i \in 1..Len(getFilteredEvents(Get(events, DateKey(date)), searchQuery)) :
                event = getFilteredEvents(Get(events, DateKey(date)), searchQuery)[i]
    /\ selectedDate' = date
    /\ selectedEvent' = event
    /\ isEventModalOpen' = TRUE
    /\ events' = Render(events, date, searchQuery)
    /\ lastOp' = Op("ui", "ok")
    /\ download' = NoDownload
    /\ UNCHANGED <<storage, fatal, showAddEvent, searchQuery,
                   currentMonth, nextId>>

\* the 'Add Event' button of the sidebar
AddEventClick ==
    /\ ~fatal /\ ~isEventModalOpen
    /\ selectedDate # NoDate /\ showAddEvent
    /\ isEventModalOpen' = TRUE
    /\ events' = Render(events, selectedDate, searchQuery)
    /\ lastOp' = Op("ui", "ok")
    /\ download' = NoDownload
    /\ UNCHANGED <<storage, fatal, selectedDate, selectedEvent,
                   showAddEvent, searchQuery, currentMonth, nextId>>

\* handleCloseEventModal
CloseEventModal ==
    /\ ~fatal /\ isEventModalOpen
    /\ isEventModalOpen' = FALSE
    /\ selectedEvent' = NoEvent
    /\ events' = Render(events, selectedDate, searchQuery)
    /\ lastOp' = Op("ui", "ok")
    /\ download' = NoDownload
    /\ UNCHANGED <<storage, fatal, selectedDate, showAddEvent,
                   searchQuery, currentMonth, nextId>>

\* handleSaveEvent, called by the modal's form
SaveEvent(eventData) ==
    /\ ~fatal /\ isEventModalOpen
    /\ selectedEvent = NoEvent => nextId < MaxId
    /\ LET dateKey  == DateKey(selectedDate)
           newEvent == NewEvent(eventData, selectedEvent, nextId + 1)
       IN  IF selectedDate = NoDate
           THEN /\ lastOp' = Op("save", "noop")
                /\ UNCHANGED <<events, storage, selectedEvent,
                               isEventModalOpen, nextId>>
           ELSE IF HasOverlap(Get(events, dateKey), newEvent)
           THEN /\ lastOp' = Op("save", "rejected")
                /\ UNCHANGED <<events, storage, selectedEvent,
                               isEventModalOpen, nextId>>
           ELSE /\ events' = Render(SavedEvents(events, dateKey, selectedEvent, newEvent),
                                    selectedDate, searchQuery)
                /\ storage' = Persisted(SavedEvents(events, dateKey, selectedEvent, newEvent),
                                        events')
                /\ selectedEvent' = NoEvent
                /\ isEventModalOpen' = FALSE
                /\ nextId' = IF selectedEvent = NoEvent THEN nextId + 1 ELSE nextId
                /\ lastOp' = Op("save", "ok")
    /\ download' = NoDownload
    /\ UNCHANGED <<fatal, selectedDate, showAddEvent, searchQuery,
                   currentMonth>>

\* handleDeleteEvent, called by the modal with its event prop
DeleteEvent ==
    /\ ~fatal /\ isEventModalOpen
    /\ LET dateKey == DateKey(selectedDate)
       IN  IF selectedEvent = NoEvent \/ selectedDate = NoDate
           THEN /\ lastOp' = Op("delete", "noop")
                /\ UNCHANGED <<events, storage, isEventModalOpen>>
           ELSE IF dateKey \notin DOMAIN events
           THEN \* newEvents[dateKey].filter: TypeError, no setter is reached
                /\ lastOp' = Op("delete", "threw")
                /\ UNCHANGED <<events, storage, isEventModalOpen>>
           ELSE /\ events' = Render(DeletedEvents(events, dateKey, selectedEvent),
                                    selectedDate, searchQuery)
                /\ storage' = Persisted(DeletedEvents(events, dateKey, selectedEvent),
                                        events')
                /\ isEventModalOpen' = FALSE
                /\ lastOp' = Op("delete", "ok")
    /\ download' = NoDownload
    /\ UNCHANGED <<fatal, selectedDate, selectedEvent, showAddEvent,
                   searchQuery, currentMonth, nextId>>

\* Number of draggables of a grid cell (at most two are rendered)
Draggables(date) == Len(GridEvents(events, date, searchQuery))

\* A drop reported by the drag-and-drop library to handleEventDragEnd:
\* source.droppableId / source.index are the cell and the Draggable index
\* the drag started from; hasDestination is FALSE for a drop outside every
\* cell (result.destination null).
DragEnd(sourceDay, sourceIndex, hasDestination, destinationDay, destinationIndex) ==
    /\ ~fatal /\ ~isEventModalOpen
    /\ sourceDay \in Grid[currentMonth]
    /\ destinationDay \in Grid[currentMonth]
    /\ sourceIndex < Draggables(sourceDay)
    /\ hasDestination =>
          destinationIndex <= (IF destinationDay = sourceDay
                               THEN Draggables(sourceDay) - 1
                               ELSE Draggables(destinationDay))
    /\ ~hasDestination => destinationDay = sourceDay /\ destinationIndex = 0
    /\ LET sourceDate      == DateKey(sourceDay)
           destinationDate == DateKey(destinationDay)
       IN  IF ~hasDestination
           THEN UNCHANGED <<events, storage>>
           ELSE IF SamePosition(sourceDate, sourceIndex,
                                destinationDate, destinationIndex)
           THEN UNCHANGED <<events, storage>>
           ELSE /\ events' = Render(DraggedEvents(events, sourceDate, sourceIndex,
                                                  destinationDate, destinationIndex),
                                    selectedDate, searchQuery)
                /\ storage' = Persisted(DraggedEvents(events, sourceDate, sourceIndex,
                                                      destinationDate, destinationIndex),
                                        events')
    \* the drop reported: "noop" without a destination or onto the cell and
    \* index the drag started from, "ok" for any other drop
    /\ lastOp' = Op("drag", IF hasDestination
                                /\ ~(sourceDay = destinationDay
                                     /\ sourceIndex = destinationIndex)
                             THEN "ok" ELSE "noop")
    /\ download' = NoDownload
    /\ UNCHANGED <<fatal, selectedDate, selectedEvent, isEventModalOpen,
                   showAddEvent, searchQuery, currentMonth, nextId>>

\* typing in the search box: setSearchQuery(e.target.value)
Search(query) ==
    /\ ~fatal /\ ~isEventModalOpen
    /\ query # searchQuery
    /\ searchQuery' = query
    /\ events' = Render(events, selectedDate, query)
    /\ lastOp' = Op("ui", "ok")
    /\ download' = NoDownload
    /\ UNCHANGED <<storage, fatal, selectedDate, selectedEvent,
                   isEventModalOpen, showAddEvent, currentMonth, nextId>>

\* handlePrevMonth / handleNextMonth -> handleMonthChange(date)
MonthChange(month) ==
    /\ ~fatal /\ ~isEventModalOpen
    /\ month = currentMonth - 1 \/ month = currentMonth + 1
    /\ currentMonth' = month
    /\ IF selectedDate # NoDate /\ GetMonth(selectedDate) # month
       THEN selectedDate' = NoDate /\ showAddEvent' = FALSE
       ELSE UNCHANGED <<selectedDate, showAddEvent>>
    /\ events' = Render(events, selectedDate', searchQuery)
    /\ lastOp' = Op("ui", "ok")
    /\ download' = NoDownload
    /\ UNCHANGED <<storage, fatal, selectedEvent, isEventModalOpen,
                   searchQuery, nextId>>

\* handleExportEvents(format): builds a download, sets no state
ExportEvents(format) ==
    /\ ~fatal /\ ~isEventModalOpen
    /\ download' = Download(format, currentMonth,
                            currentMonthEvents(events, FirstDayOfMonth(currentMonth),
                                               FirstDayOfMonth(currentMonth)
                                                  + LastDateOfMonth(currentMonth) - 1))
    /\ lastOp' = Op("ui", "ok")
    /\ UNCHANGED <<events, storage, fatal, selectedDate, selectedEvent,
                   isEventModalOpen, showAddEvent, searchQuery, currentMonth,
                   nextId>>

Next ==
    \/ \E date \in UserDays : DaySelect(date)
    \/ \E date \in UserDays : \E i \in 1..Len(Get(events, DateKey(date))) :
          EventClick(date, events[DateKey(date)][i])
    \/ AddEventClick
    \/ CloseEventModal
    \/ \E eventData \in FormInputs : SaveEvent(eventData)
    \/ DeleteEvent
    \/ \E s \in UserDays, i \in 0..1 :
          \/ DragEnd(s, i, FALSE, s, 0)
          \/ \E d \in UserDays, j \in 0..2 : DragEnd(s, i, TRUE, d, j)
    \/ \E query \in Queries : Search(query)
    \/ \E month \in Months : MonthChange(month)
    \/ \E format \in {"json", "csv"} : ExportEvents(format)

Spec == Init /\ [][Next]_vars

----------------------------------------------------------------------------
(* The overlap study: the same App, one day, nothing persisted at the      *)
(* start, and a form that submits the ranges of TimeRanges.                *)

TimeForms ==
    { [title |-> <<"A">>, startTime |-> r[1], endTime |-> r[2]] : r \in TimeRanges }

InitOverlap == Init /\ storage = StorageAbsent

NextOverlap ==
    \/ \E date \in OverlapDays : DaySelect(date)
    \/ \E date \in OverlapDays : \E i \in 1..Len(Get(events, DateKey(date))) :
          EventClick(date, events[DateKey(date)][i])
    \/ AddEventClick
    \/ CloseEventModal
    \/ \E eventData \in TimeForms : SaveEvent(eventData)

OverlapSpec == InitOverlap /\ [][NextOverlap]_vars

----------------------------------------------------------------------------
(* The grid study: the same App, nothing persisted at the start, paged     *)
(* month by month through RefMonths; every render of Calendar evaluates    *)
(* getDaysInMonth(currentMonth).                                           *)

InitGrid == Init /\ storage = StorageAbsent

NextGrid == \E month \in RefMonths : MonthChange(month)

GridSpec == InitGrid /\ [][NextGrid]_vars

----------------------------------------------------------------------------
(* Vocabulary of the properties *)

\* minutes after midnight of an "HH:MM" time
MinuteOfDay(t) == t[1] * 60 + t[2]

\* two [startTime, endTime) ranges intersect
RangesIntersect(a, b) ==
    /\ MinuteOfDay(a.startTime) < MinuteOfDay(b.endTime)
    /\ MinuteOfDay(b.startTime) < MinuteOfDay(a.endTime)

\* the identifier a save submitted now would carry
SaveId == IF selectedEvent # NoEvent THEN selectedEvent.id ELSE nextId + 1

\* the list of the selected day, before and after a step
SelectedList == Get(events, DateKey(selectedDate))
SelectedListAfter == Get(events', DateKey(selectedDate))

\* a save of eventData submitted now conflicts with another event of the
\* selected day
ConflictsOnSelectedDay(eventData) ==
    \E i \in 1..Len(SelectedList) :
        /\ SelectedList[i].id # SaveId
        /\ RangesIntersect(SelectedList[i], eventData)

\* how many entries of the list carry the identifier
CountId(list, id) == Cardinality({i \in 1..Len(list) : list[i].id = id})

\* the list without the entries that carry the identifier, order kept
WithoutId(list, id) == SelectSeq(list, LAMBDA e : e.id # id)

\* all the events of a mapping, as a set of <<day key, event>>
Placed(m) == UNION {{<<k, m[k][i]>> : i \in 1..Len(m[k])} : k \in DOMAIN m}

\* the instant t lies strictly inside the range of event b
StrictlyInside(t, b) ==
    /\ MinuteOfDay(b.startTime) < MinuteOfDay(t)
    /\ MinuteOfDay(t) < MinuteOfDay(b.endTime)

\* the shapes of the months up to a month: <<weekday of the first day,
\* number of days>>
MonthShapes(last) ==
    {<<GetDay(FirstDayOfMonth(month)), LastDateOfMonth(month)>> : month \in 0..last}

\* the day keys of the mapping that belong to a month
KeysOfMonth(m, month) ==
    {k \in DOMAIN m : k \div 100 = GetFullYear(month) * 100 + (month % 12) + 1}

\* the identifiers of the events a file lists, in the order of the file
DownloadedIds(file) ==
    IF file.format = "json"
    THEN [p \in 1..Len(file.rows) |-> file.rows[p].id]
    ELSE [p \in 1..(Len(file.rows) - 1) |-> file.rows[p + 1][1]]

\* the persisted mapping is the mapping m
PersistedIs(item, m) == item.kind = "json" /\ item.type = "object" /\ item.val = m

----------------------------------------------------------------------------
(* Properties *)

\* C1: a save whose time range conflicts with another event of the selected
\* day (any event of that day but the one with the same identifier) is
\* rejected: the events mapping and the persisted mapping stay what they were.
C1_ConflictingSaveIsRejected ==
    [][lastOp'.op = "save" =>
       \A eventData \in FormInputs :
          (SaveEvent(eventData) /\ ConflictsOnSelectedDay(eventData))
             => (events' = events /\ storage' = storage
                 /\ lastOp' = Op("save", "rejected"))]_vars

\* C1 witness: a save has just been rejected on a day that holds an event,
\* the modal still open
C1_Witness ==
    /\ lastOp = Op("save", "rejected")
    /\ isEventModalOpen
    /\ Len(SelectedList) >= 1

\* C2: no two distinct events of one day's list have overlapping
\* [startTime, endTime) ranges, in every state reachable by saves, deletes
\* and drag relocations.
C2_NoOverlapWithinADay ==
    \A k \in DOMAIN events : \A i, j \in 1..Len(events[k]) :
        i # j => ~RangesIntersect(events[k][i], events[k][j])

\* C3: no day key of the events mapping, in memory or persisted, maps to an
\* empty list.
C3_NoEmptyDayList ==
    /\ \A k \in DOMAIN events : events[k] # <<>>
    /\ \A k \in DOMAIN storage.val : storage.val[k] # <<>>

\* C4: after every save that is not rejected, the selected day's list
\* contains the saved event exactly once, identified by its identifier.
C4_SavedEventIsOnTheDayOnce ==
    [][lastOp' = Op("save", "ok") =>
       \A eventData \in FormInputs :
          SaveEvent(eventData)
             => /\ CountId(SelectedListAfter, SaveId) = 1
                /\ \E i \in 1..Len(SelectedListAfter) :
                      SelectedListAfter[i] = NewEvent(eventData, selectedEvent, SaveId)]_vars

\* C5: a delete removes exactly the event with the matching identifier from
\* the selected day, keeps the other events of the day in their order, leaves
\* every other day untouched, and leaves the day key absent when the day has
\* no event left.
C5_DeleteRemovesExactlyTheEvent ==
    [][(DeleteEvent /\ lastOp' = Op("delete", "ok"))
          => LET key  == DateKey(selectedDate)
                 rest == WithoutId(SelectedList, selectedEvent.id)
             IN  /\ \A k \in (DOMAIN events) \ {key} :
                       k \in DOMAIN events' /\ events'[k] = events[k]
                 /\ DOMAIN events' \subseteq DOMAIN events
                 /\ SelectedListAfter = rest
                 /\ key \in DOMAIN events' <=> rest # <<>>]_vars

\* C5 witness: the last event of the selected day has just been deleted, the
\* day key is gone and another day still holds its events
C5_Witness ==
    /\ lastOp = Op("delete", "ok")
    /\ selectedDate # NoDate
    /\ DateKey(selectedDate) \notin DOMAIN events
    /\ \E k \in DOMAIN events : Len(events[k]) >= 2

\* C6: a drag from (day S, index i) to (day D, index j) removes the event
\* at index i of S's list and inserts that same event at index j of D's list
\* (creating D's list when it has none); every other event keeps its day and
\* its relative order, and the events over all days are the same as before.
C6_DragRelocatesToTheDropIndex ==
    [][lastOp' = Op("drag", "ok") =>
       \A s \in UserDays, d \in UserDays, i \in 0..1, j \in 0..2 :
          DragEnd(s, i, TRUE, d, j)
             => LET moved == events[DateKey(s)][i + 1]
                IN  /\ DateKey(d) \in DOMAIN events'
                    /\ Len(events'[DateKey(d)]) >= j + 1
                    /\ events'[DateKey(d)][j + 1] = moved
                    /\ \A k \in DOMAIN events' :
                          WithoutId(events'[k], moved.id) = WithoutId(Get(events, k), moved.id)
                    /\ DOMAIN events \subseteq DOMAIN events'
                    /\ {p[2] : p \in Placed(events')} = {p[2] : p \in Placed(events)}
                    /\ Cardinality(Placed(events')) = Cardinality(Placed(events))]_vars

\* C7: a drag that ends with no destination, or on the day and index it
\* started from, changes neither the events mapping (so no list order) nor
\* the persisted state.
C7_DragWithoutMoveIsNoOp ==
    [][lastOp' = Op("drag", "noop")
          => (events' = events /\ storage' = storage)]_vars

\* C7 witness: a drag has just ended without a move while the selected
\* day's list, sorted by the last render, differs from what is persisted
C7_Witness ==
    /\ lastOp = Op("drag", "noop")
    /\ \E k \in DOMAIN events : Len(events[k]) >= 2
    /\ ~PersistedIs(storage, events)

\* C8: after every completed add, edit, delete or move the persisted mapping
\* equals the in-memory events mapping (storage writes succeed in this model).
C8_MutationsArePersisted ==
    lastOp \in {Op("save", "ok"), Op("delete", "ok"), Op("drag", "ok")}
       => PersistedIs(storage, events)

\* C8 witness: a drag has just dropped an event on the selected day, whose
\* list the following render sorted, and the persisted mapping is that list
C8_Witness ==
    /\ lastOp = Op("drag", "ok")
    /\ selectedDate # NoDate /\ searchQuery = <<>>
    /\ Len(SelectedList) >= 2
    /\ SelectedList[1].id > SelectedList[2].id
    /\ PersistedIs(storage, events)

\* C9: loadEventsFromStorage returns a mapping from day key to event list
\* whatever the persisted value is: absent, not parseable, or parseable but
\* not a mapping.
C9_LoadReturnsAMapping ==
    loadEventsFromStorage(storage).type = "object"

\* C10: no user operation throws; in particular a delete invoked from the
\* modal completes for every selected day, also one without a list.
C10_NoOperationThrows ==
    lastOp.out # "threw"

\* C11: two events conflict exactly when each starts before the other ends
\* (half-open ranges on the time of day), so a save is rejected exactly when
\* the submitted range intersects another event of the day; in particular,
\* with 08:00-09:00 alone on the day, a new 08:30-09:30 is rejected and a new
\* 09:00-10:00, which starts when the other ends, is accepted.
C11_OverlapIsHalfOpen ==
    [][lastOp'.op = "save" =>
       \A eventData \in TimeForms :
          (SaveEvent(eventData) /\ selectedDate # NoDate)
             => /\ (lastOp' = Op("save", "rejected")) <=> ConflictsOnSelectedDay(eventData)
                /\ (lastOp' = Op("save", "ok")) <=> ~ConflictsOnSelectedDay(eventData)
                /\ ( /\ Len(SelectedList) = 1
                     /\ SelectedList[1].startTime = T0800
                     /\ SelectedList[1].endTime = T0900
                     /\ selectedEvent = NoEvent )
                   => /\ (eventData.startTime = T0830 /\ eventData.endTime = T0930)
                         => (lastOp' = Op("save", "rejected") /\ events' = events)
                      /\ (eventData.startTime = T0900 /\ eventData.endTime = T1000)
                         => (lastOp' = Op("save", "ok") /\ Len(SelectedListAfter) = 2)]_vars

\* C11 witness: a save has just been accepted on a day that now holds
\* 08:00-09:00 and 09:00-10:00, one ending when the other starts
C11_Witness ==
    /\ lastOp = Op("save", "ok")
    /\ Len(SelectedList) = 2
    /\ SelectedList[1].startTime = T0800 /\ SelectedList[1].endTime = T0900
    /\ SelectedList[2].startTime = T0900 /\ SelectedList[2].endTime = T1000
    /\ SelectedList[2].id > SelectedList[1].id

\* C12 (as stated): an event that lasts no time (startTime = endTime) never
\* conflicts with anything, so a save of such an event is never rejected for
\* overlap.
C12_ZeroDurationNeverConflicts ==
    [][lastOp'.op = "save" =>
       \A eventData \in TimeForms :
          (SaveEvent(eventData) /\ eventData.startTime = eventData.endTime)
             => /\ lastOp' # Op("save", "rejected")
                /\ \A i \in 1..Len(SelectedList) :
                      SelectedList[i].id # SaveId
                         => /\ ~hasTimeOverlap(eventData, SelectedList[i])
                            /\ ~hasTimeOverlap(SelectedList[i], eventData)]_vars

\* C12 (amended): an event that lasts no time conflicts with an event b
\* exactly when its instant lies strictly inside b's range; it conflicts
\* neither with an event that starts or ends at that instant nor with another
\* event that lasts no time, and a save of it is rejected exactly when its
\* instant lies strictly inside the range of another event of the day.
C12_ZeroDurationConflictsOnlyInside ==
    [][lastOp'.op = "save" =>
       \A eventData \in TimeForms :
          (SaveEvent(eventData) /\ selectedDate # NoDate
              /\ eventData.startTime = eventData.endTime)
             => /\ (lastOp' = Op("save", "rejected"))
                      <=> \E i \in 1..Len(SelectedList) :
                             /\ SelectedList[i].id # SaveId
                             /\ StrictlyInside(eventData.startTime, SelectedList[i])
                /\ \A i \in 1..Len(SelectedList) :
                      /\ hasTimeOverlap(eventData, SelectedList[i])
                            <=> StrictlyInside(eventData.startTime, SelectedList[i])
                      /\ hasTimeOverlap(SelectedList[i], eventData)
                            <=> StrictlyInside(eventData.startTime, SelectedList[i])]_vars

\* C12 witness: a save has just been accepted on a day that holds an event
\* lasting no time at the instant another event ends, and two events lasting
\* no time at one instant
C12_Witness ==
    /\ lastOp = Op("save", "ok")
    /\ \E i, j \in 1..Len(SelectedList) :
          /\ SelectedList[i].startTime = SelectedList[i].endTime
          /\ SelectedList[j].startTime # SelectedList[j].endTime
          /\ SelectedList[j].endTime = SelectedList[i].startTime
    /\ \E i, j \in 1..Len(SelectedList) :
          /\ i # j
          /\ SelectedList[i].startTime = SelectedList[i].endTime
          /\ SelectedList[j].startTime = SelectedList[i].startTime
          /\ SelectedList[j].endTime = SelectedList[i].startTime

\* C13: for every reference month (every combination of the weekday of its
\* first day, 0..6, and its number of days, 28..31) getDaysInMonth returns
\* consecutive days that start on a Sunday, as many as the least multiple of
\* 7 that holds the leading padding and the days of the month, and every day
\* of the month is among them exactly once.
C13_GridCoversTheMonthInWeeks ==
    LET days             == getDaysInMonth(currentMonth)
        firstOfMonth     == FirstDayOfMonth(currentMonth)
        daysInMonth      == LastDateOfMonth(currentMonth)
        leadingPadding   == GetDay(firstOfMonth)
    IN  /\ Len(days) >= 1
        /\ GetDay(days[1]) = 0
        /\ \A i \in 1..(Len(days) - 1) : days[i + 1] = days[i] + 1
        /\ Len(days) % 7 = 0
        /\ Len(days) >= leadingPadding + daysInMonth
        /\ Len(days) - 7 < leadingPadding + daysInMonth
        /\ \A d \in firstOfMonth..(firstOfMonth + daysInMonth - 1) :
              Cardinality({i \in 1..Len(days) : days[i] = d}) = 1
        /\ currentMonth >= 335 =>
              MonthShapes(currentMonth) = (0..6) \X (28..31)

\* C13 witness: the grid of a month of 31 days that starts on a Saturday has
\* six weeks, after months of every shape have been shown, among them a
\* February of 28 days that starts on a Sunday (four weeks, no padding)
C13_Witness ==
    /\ GetDay(FirstDayOfMonth(currentMonth)) = 6
    /\ LastDateOfMonth(currentMonth) = 31
    /\ Len(getDaysInMonth(currentMonth)) = 42
    /\ <<0, 28>> \in MonthShapes(currentMonth)
    /\ \E month \in 0..currentMonth :
          /\ LastDateOfMonth(month) = 28 /\ GetDay(FirstDayOfMonth(month)) = 0
          /\ Len(getDaysInMonth(month)) = 28

C15_EditedEventIsOnTheSelectedDay ==
    (isEventModalOpen /\ selectedEvent # NoEvent)
       => /\ selectedDate # NoDate
          /\ \E i \in 1..Len(SelectedList) : SelectedList[i] = selectedEvent

\* C16: the event a drag relocates is the event the user dragged, whatever
\* the search query is: the index of a draggable in a cell (a position in
\* the filtered, first-two-only list) designates the same event in the stored
\* list of the day, and the drop index designates the same position in the
\* stored list of the destination day; after the drop the dragged event is on
\* the destination day and every other event is on the day it was on.
C16_DragMovesTheDraggedEvent ==
    [][lastOp' = Op("drag", "ok") =>
       \A s \in UserDays, d \in UserDays, i \in 0..1, j \in 0..2 :
          DragEnd(s, i, TRUE, d, j)
             => LET dragged  == GridEvents(events, s, searchQuery)[i + 1]
                    stored   == WithoutId(Get(events, DateKey(d)), dragged.id)
                    shown    == getFilteredEvents(stored, searchQuery)
                IN  /\ events[DateKey(s)][i + 1] = dragged
                    /\ SubSeq(shown, 1, j) = SubSeq(stored, 1, j)
                    /\ \E n \in 1..Len(Get(events', DateKey(d))) :
                          events'[DateKey(d)][n] = dragged
                    /\ \A k \in DOMAIN events : \A n \in 1..Len(events[k]) :
                          events[k][n].id # dragged.id
                             => \E n2 \in 1..Len(Get(events', k)) :
                                   events'[k][n2] = events[k][n]]_vars

====
